---- MODULE Spec2Model ----
(***************************************************************************)
(* The recruitment pipeline of src/src/graph.py: one app.invoke of the     *)
(* compiled LangGraph workflow, its four nodes and the agents of           *)
(* src/src/agents.py they call.  The retrieval and the structured          *)
(* generation providers are external: a retrieval call returns an opaque   *)
(* context, a generation call returns a value of the requested schema,     *)
(* chosen by the provider, or raises.                                      *)
(*                                                                         *)
(* The report aggregator of src/ragas_eval.py is a second program: a       *)
(* script that loads the persisted output of a finished run, builds the    *)
(* reference-track records, averages the metrics, asks five judges and     *)
(* writes the report.  ReportSpec is one run of it.                        *)
(***************************************************************************)
EXTENDS Integers, Sequences, FiniteSets, TLC

VARIABLES
    site,         \* which app.invoke this is: "first" or "resume"
    input,        \* the state dict the caller handed to app.invoke
    state,        \* the RecruitState threaded through the nodes
    pc,           \* the node about to run, "END", or "raised"
    all_matches,  \* local list of resume_screening_agent
    idx,          \* position of its for loop in candidate_ids (0: not entered)
    ran,          \* the nodes started so far, in order
    calls,        \* the provider calls made so far, in order
    rejected,     \* the provider answer whose validation raised, if any
    rpc,          \* report script: the statement block about to run
    data,         \* report script: the loaded final_output.json
    ri,           \* report script: position of the records loop in evaluation
    records,      \* report script: the reference-track records
    ragas_runs,   \* report script: how often the metric evaluation was run
    scores,       \* report script: the three averages and candidate_score
    final_report, \* report script: the report dict, as its items in insertion order
    judge_calls,  \* report script: the judge calls made so far, in order
    written       \* report script: the files written so far, in order

pvars == <<site, input, state, pc, all_matches, idx, ran, calls, rejected>>
rvars == <<rpc, data, ri, records, ragas_runs, scores, final_report, judge_calls, written>>
vars == <<pvars, rvars>>

----------------------------------------------------------------------------
(* Bounds of the model                                                     *)

MaxCands == 2   \* longest candidate_ids list
MaxQ == 2       \* longest question list a generation call returns

----------------------------------------------------------------------------
(* Values                                                                  *)

\* Optional[T]: None is <<>>, a present value v is <<v>>
None == <<>>
Some(v) == <<v>>

JdQuery == "Find best candidate fit for this job and identify gaps."

\* file stems of data/resumes in sorted order
CandOrder == <<"c1", "c2", "c3">>
CandIds == {CandOrder[i] : i \in 1..Len(CandOrder)}

\* a candidate_id no resume file has
Ghost == "zz"

\* list_candidate_ids: the sorted stems of the resume files present
list_candidate_ids(files) == SelectSeq(CandOrder, LAMBDA c : c \in files)

CandLists ==
    {list_candidate_ids(T) : T \in {U \in SUBSET CandIds : Cardinality(U) <= MaxCands}}

\* match_score values the provider answers with, all within Field(ge=0, le=100)
Scores == {10, 40, 90}

GapsOf(s) == IF s >= 90 THEN <<>> ELSE IF s >= 40 THEN <<"sql">> ELSE <<"sql", "etl">>

\* CandidateMatch (strengths and summary are free text no code reads)
CandidateMatch(c, s) == [candidate_id |-> c, match_score |-> s, gaps |-> GapsOf(s)]

ScreeningOutput(ms) == [ranked_candidates |-> ms]

\* what the provider may answer to the screening prompt of candidate c:
\* any list of CandidateMatch (ScreeningOutput.ranked_candidates is a List)
ScreeningResponses(c) ==
    {<<>>}
    \cup {<<CandidateMatch(c, s)>> : s \in Scores}
    \cup {<<CandidateMatch(Ghost, 90)>>}
    \cup {<<CandidateMatch(c, 90), CandidateMatch(c, 40)>>}

\* as ValidCandidateMatch, but the range is not enforced
ValidCandidateMatchAnyScore(m) == m.match_score \in Int

\* Field(..., ge=0, le=100) of CandidateMatch.match_score; no validator
\* rewrites the value
ValidCandidateMatch(m) == m.match_score \in 0..100

\* List[CandidateMatch]: every element is validated
ValidScreeningOutput(ms) == \A i \in 1..Len(ms) : ValidCandidateMatch(ms[i])

\* what the provider may put on the wire for candidate c before the schema is
\* applied: the answers above, and answers with a score outside the range
RawScreeningResponses(c) ==
    ScreeningResponses(c)
    \cup {<<CandidateMatch(c, s)>> : s \in {-1, 101}}
    \cup {<<CandidateMatch(c, 90), CandidateMatch(c, 101)>>}

QTexts == {"q1", "q2"}

OutlineOf(q) == IF q = "q1" THEN <<"o1", "o2">> ELSE <<"o3">>

InterviewQuestion(q) ==
    [question |-> q, skill_tested |-> "skill", expected_answer_outline |-> OutlineOf(q)]

\* str(candidate_id) as the prompt template formats it
CidText(cid) == IF cid = None THEN "None" ELSE cid[1]

QLists == UNION {[1..n -> QTexts] : n \in 0..MaxQ}

QuestionsResponses(cid) ==
    {[candidate_id |-> CidText(cid),
      questions |-> [i \in 1..Len(qs) |-> InterviewQuestion(qs[i])]] : qs \in QLists}

\* num_questions=6 of node_generate_questions
NumQuestions == 6

\* dict.get(key, default)
Get(d, k, default) == IF k \in DOMAIN d THEN d[k] ELSE default

EvalScores == {6, 7}
Verdicts == {"Hire", "Maybe"}

MissingOf(q) == IF q = "q1" THEN <<"m1", "m2">> ELSE <<"m2">>

AnswerEvaluationItem(b, s) ==
    [question |-> b.question, answer |-> b.answer, score |-> s,
     missing_points |-> MissingOf(b.question)]

\* what the provider may answer to the evaluation prompt: one item per bundle
\* with any scores, or a list that drops the last bundle
EvalDetails(bundle) ==
    {[i \in 1..Len(bundle) |-> AnswerEvaluationItem(bundle[i], f[i])] :
        f \in [1..Len(bundle) -> EvalScores]}
    \cup {[i \in 1..(Len(bundle) - 1) |-> AnswerEvaluationItem(bundle[i], 6)]}

EvalResponses(cid, bundle) ==
    {[candidate_id |-> CidText(cid), overall_score |-> 65,
      detailed |-> d, final_verdict |-> v] : d \in EvalDetails(bundle), v \in Verdicts}

\* Field(..., ge=0, le=10) of AnswerEvaluationItem.score
ValidAnswerEvaluationItem(it) == it.score \in 0..10

\* Field(..., ge=0, le=100) of overall_score, and every detailed item validated
ValidAnswerEvaluationOutput(out) ==
    /\ out.overall_score \in 0..100
    /\ \A i \in 1..Len(out.detailed) : ValidAnswerEvaluationItem(out.detailed[i])

\* the evaluation answers on the wire: the ones above, one with an overall
\* score outside the range, and ones whose first item is outside the range
RawEvalResponses(cid, bundle) ==
    EvalResponses(cid, bundle)
    \cup {[candidate_id |-> CidText(cid), overall_score |-> 101,
           detailed |-> [i \in 1..Len(bundle) |-> AnswerEvaluationItem(bundle[i], 7)],
           final_verdict |-> "Hire"]}
    \cup {[candidate_id |-> CidText(cid), overall_score |-> 65,
           detailed |-> [i \in 1..Len(bundle) |->
                           AnswerEvaluationItem(bundle[i], IF i = 1 THEN s ELSE 7)],
           final_verdict |-> "Hire"] : s \in {-1, 11}}

WeeklyPlan(w) == [week |-> w, goals |-> <<"g">>, topics |-> <<"t">>, resources |-> <<"r">>]

\* a LearningPlan with its optional fields filled in, and one with every
\* optional field left at its default None
PlanResponses(cid) ==
    {[candidate_id |-> cid, summary |-> Some("s"), plan_by_week |-> <<WeeklyPlan(1)>>,
      practice_projects |-> Some(<<"p">>), resources |-> Some(<<>>),
      focus_areas |-> Some(<<"f1", "f2">>), recommended_resources |-> <<"Label: url">>],
     [candidate_id |-> None, summary |-> None, plan_by_week |-> <<>>,
      practice_projects |-> None, resources |-> None,
      focus_areas |-> None, recommended_resources |-> <<>>]}

----------------------------------------------------------------------------
(* Provider calls                                                          *)

RetrieveJd(node, k) ==
    [kind |-> "retrieve_jd", node |-> node, cid |-> None, arg |-> <<k>>, ok |-> TRUE]

RetrieveResume(node, c, k) ==
    [kind |-> "retrieve_resume", node |-> node, cid |-> Some(c), arg |-> <<k>>, ok |-> TRUE]

Generate(node, cid, arg, ok) ==
    [kind |-> "generate", node |-> node, cid |-> cid, arg |-> arg, ok |-> ok]

----------------------------------------------------------------------------
(* Agents (src/src/agents.py)                                              *)

\* as InsertDesc, but an equal score goes in front (a sort that is not stable)
RECURSIVE InsertDescUnstable(_, _)
InsertDescUnstable(sorted, m) ==
    IF sorted = <<>> THEN <<m>>
    ELSE IF Head(sorted).match_score > m.match_score
         THEN <<Head(sorted)>> \o InsertDescUnstable(Tail(sorted), m)
         ELSE <<m>> \o sorted

\* insert m behind every entry whose score is not smaller: equal scores keep
\* their order of arrival, as sorted(..., reverse=True) guarantees
RECURSIVE InsertDesc(_, _)
InsertDesc(sorted, m) ==
    IF sorted = <<>> THEN <<m>>
    ELSE IF Head(sorted).match_score >= m.match_score
         THEN <<Head(sorted)>> \o InsertDesc(Tail(sorted), m)
         ELSE <<m>> \o sorted

\* sorted(all_matches, key=lambda x: x.match_score, reverse=True)
RECURSIVE SortedDesc(_)
SortedDesc(ms) ==
    IF ms = <<>> THEN <<>>
    ELSE InsertDesc(SortedDesc(SubSeq(ms, 1, Len(ms) - 1)), ms[Len(ms)])

\* as q_bundle, but the answer is looked up under the skill instead of the text
q_bundleWrongKey(questions_output, answers) ==
    [i \in 1..Len(questions_output.questions) |->
        [question |-> questions_output.questions[i].question,
         skill_tested |-> questions_output.questions[i].skill_tested,
         expected_answer_outline |-> questions_output.questions[i].expected_answer_outline,
         answer |-> Get(answers, questions_output.questions[i].skill_tested, "")]]

\* the q_bundle answer_evaluation_agent builds
q_bundle(questions_output, answers) ==
    [i \in 1..Len(questions_output.questions) |->
        [question |-> questions_output.questions[i].question,
         skill_tested |-> questions_output.questions[i].skill_tested,
         expected_answer_outline |-> questions_output.questions[i].expected_answer_outline,
         answer |-> Get(answers, questions_output.questions[i].question, "")]]

\* the score at or below which an item's missing_points count as weak points
WeakThreshold == 6

\* as weak_points, but an item at the threshold itself is not weak
RECURSIVE weak_pointsStrict(_)
weak_pointsStrict(detailed) ==
    IF detailed = <<>> THEN <<>>
    ELSE (IF Head(detailed).score < WeakThreshold
            THEN Head(detailed).missing_points ELSE <<>>)
         \o weak_pointsStrict(Tail(detailed))

\* the weak_points learning_plan_agent collects
RECURSIVE weak_points(_)
weak_points(detailed) ==
    IF detailed = <<>> THEN <<>>
    ELSE (IF Head(detailed).score <= WeakThreshold
            THEN Head(detailed).missing_points ELSE <<>>)
         \o weak_points(Tail(detailed))

----------------------------------------------------------------------------
(* Graph nodes (src/src/graph.py)                                          *)

\* as Edge, but evaluate_answers is wired to END
EdgeSkipsPlan(n) ==
    CASE n = "screen_resumes" -> "generate_questions"
      [] n = "generate_questions" -> "evaluate_answers"
      [] n = "evaluate_answers" -> "END"
      [] n = "learning_plan" -> "END"

\* graph.add_edge: the node (or END) that follows n
Edge(n) ==
    CASE n = "screen_resumes" -> "generate_questions"
      [] n = "generate_questions" -> "evaluate_answers"
      [] n = "evaluate_answers" -> "learning_plan"
      [] n = "learning_plan" -> "END"

\* as TopCandidate, but reads the last entry
TopCandidateLast(screening) ==
    IF screening.ranked_candidates # <<>>
    THEN Some(screening.ranked_candidates[Len(screening.ranked_candidates)].candidate_id)
    ELSE None

\* screening.ranked_candidates[0].candidate_id if screening.ranked_candidates else None
TopCandidate(screening) ==
    IF screening.ranked_candidates # <<>>
    THEN Some(screening.ranked_candidates[1].candidate_id)
    ELSE None

\* the dict each node returns: {**state, <the keys it sets>}
ScreenUpdate(st, screening, top) ==
    [st EXCEPT !.screening = Some(screening), !.selected_candidate_id = top]

\* as QuestionsUpdate, but new questions also reset the answers
QuestionsUpdateResetsAnswers(st, questions) ==
    [st EXCEPT !.questions = Some(questions), !.answers = [q \in {} |-> ""]]

QuestionsUpdate(st, questions) == [st EXCEPT !.questions = Some(questions)]

\* as EvaluationUpdate, but it also seeds learning_plan with a placeholder
EvaluationUpdateSeedsPlan(st, evaluation) ==
    [st EXCEPT !.evaluation = Some(evaluation),
               !.learning_plan = Some([candidate_id |-> None, plan_by_week |-> <<>>,
                                       recommended_resources |-> <<>>])]

EvaluationUpdate(st, evaluation) == [st EXCEPT !.evaluation = Some(evaluation)]

PlanUpdate(st, plan) == [st EXCEPT !.learning_plan = Some(plan)]

\* as FirstGaps, but the loop has no break: the last matching entry wins
RECURSIVE FirstGapsNoBreak(_, _)
FirstGapsNoBreak(ranked, cid) ==
    IF ranked = <<>> THEN <<>>
    ELSE IF cid # None /\ ranked[Len(ranked)].candidate_id = cid[1]
         THEN ranked[Len(ranked)].gaps
    ELSE FirstGapsNoBreak(SubSeq(ranked, 1, Len(ranked) - 1), cid)

\* node_learning_plan: the gaps of the first ranked candidate whose id is cid
RECURSIVE FirstGaps(_, _)
FirstGaps(ranked, cid) ==
    IF ranked = <<>> THEN <<>>
    ELSE IF cid # None /\ Head(ranked).candidate_id = cid[1] THEN Head(ranked).gaps
    ELSE FirstGaps(Tail(ranked), cid)

GapsFor(st) ==
    IF st.screening # None
    THEN FirstGaps(st.screening[1].ranked_candidates, st.selected_candidate_id)
    ELSE <<>>

\* node_screen_resumes enters resume_screening_agent: one JD retrieval (k=6)
\* shared by all candidates, and an empty all_matches
ScreenEnter ==
    /\ pc = "screen_resumes"
    /\ idx = 0
    /\ ran' = Append(ran, "screen_resumes")
    /\ calls' = Append(calls, RetrieveJd("screen_resumes", 6))
    /\ all_matches' = <<>>
    /\ idx' = 1
    /\ UNCHANGED <<site, input, state, pc, rejected>>
    /\ UNCHANGED rvars

\* one pass of the for loop whose generation call returns a ScreeningOutput
ScreenIterate ==
    /\ pc = "screen_resumes"
    /\ idx \in 1..Len(state.candidate_ids)
    /\ LET c == state.candidate_ids[idx] IN
        \E out \in RawScreeningResponses(c) :
            /\ ValidScreeningOutput(out)
            /\ calls' = calls \o <<RetrieveResume("screen_resumes", c, 6),
                                   Generate("screen_resumes", Some(c), <<>>, TRUE)>>
            /\ all_matches' = all_matches \o out
    /\ idx' = idx + 1
    /\ UNCHANGED <<site, input, state, pc, ran, rejected>>
    /\ UNCHANGED rvars

\* as ScreenRaise, but the exception is swallowed and the loop goes on
ScreenRaiseSwallowed ==
    /\ pc = "screen_resumes"
    /\ idx \in 1..Len(state.candidate_ids)
    /\ LET c == state.candidate_ids[idx] IN
        calls' = calls \o <<RetrieveResume("screen_resumes", c, 6),
                            Generate("screen_resumes", Some(c), <<>>, FALSE)>>
    /\ idx' = idx + 1
    /\ UNCHANGED <<site, input, state, pc, all_matches, ran, rejected>>
    /\ UNCHANGED rvars

\* one pass of the for loop whose generation call raises, because the provider
\* failed or because its answer does not validate as a ScreeningOutput: the
\* exception leaves the agent, the node and app.invoke
ScreenRaise ==
    /\ pc = "screen_resumes"
    /\ idx \in 1..Len(state.candidate_ids)
    /\ LET c == state.candidate_ids[idx] IN
        /\ calls' = calls \o <<RetrieveResume("screen_resumes", c, 6),
                               Generate("screen_resumes", Some(c), <<>>, FALSE)>>
        /\ \/ rejected' = None
           \/ \E out \in RawScreeningResponses(c) :
                /\ ~ValidScreeningOutput(out)
                /\ rejected' = Some(out)
    /\ pc' = "raised"
    /\ UNCHANGED <<site, input, state, all_matches, idx, ran>>
    /\ UNCHANGED rvars

\* the loop is over: sort, wrap, pick the top candidate, return the new state
ScreenReturn ==
    /\ pc = "screen_resumes"
    /\ idx > Len(state.candidate_ids)
    /\ LET screening == ScreeningOutput(SortedDesc(all_matches)) IN
        state' = ScreenUpdate(state, screening, TopCandidate(screening))
    /\ pc' = Edge("screen_resumes")
    /\ idx' = 0
    /\ UNCHANGED <<site, input, all_matches, ran, calls, rejected>>
    /\ UNCHANGED rvars

node_screen_resumes == ScreenEnter \/ ScreenIterate \/ ScreenRaise \/ ScreenReturn

node_generate_questions ==
    /\ pc = "generate_questions"
    /\ ran' = Append(ran, "generate_questions")
    /\ LET cid == state.selected_candidate_id IN
        \/ \E out \in QuestionsResponses(cid) :
            /\ calls' = calls \o <<RetrieveJd("generate_questions", 8),
                                   Generate("generate_questions", cid, <<NumQuestions>>, TRUE)>>
            /\ state' = QuestionsUpdate(state, out)
            /\ pc' = Edge("generate_questions")
        \/ /\ calls' = calls \o <<RetrieveJd("generate_questions", 8),
                                  Generate("generate_questions", cid, <<NumQuestions>>, FALSE)>>
           /\ pc' = "raised"
           /\ UNCHANGED state
    /\ UNCHANGED <<site, input, all_matches, idx, rejected>>
    /\ UNCHANGED rvars

node_evaluate_answers ==
    /\ pc = "evaluate_answers"
    /\ ran' = Append(ran, "evaluate_answers")
    /\ LET cid == state.selected_candidate_id
           bundle == q_bundle(state.questions[1], state.answers) IN
        \/ \E out \in RawEvalResponses(cid, bundle) :
            /\ ValidAnswerEvaluationOutput(out)
            /\ calls' = calls \o <<RetrieveJd("evaluate_answers", 6),
                                   Generate("evaluate_answers", cid, bundle, TRUE)>>
            /\ state' = EvaluationUpdate(state, out)
            /\ pc' = Edge("evaluate_answers")
            /\ UNCHANGED rejected
        \/ /\ calls' = calls \o <<RetrieveJd("evaluate_answers", 6),
                                  Generate("evaluate_answers", cid, bundle, FALSE)>>
           /\ \/ rejected' = None
              \/ \E out \in RawEvalResponses(cid, bundle) :
                   /\ ~ValidAnswerEvaluationOutput(out)
                   /\ rejected' = Some(out)
           /\ pc' = "raised"
           /\ UNCHANGED state
    /\ UNCHANGED <<site, input, all_matches, idx>>
    /\ UNCHANGED rvars

node_learning_plan ==
    /\ pc = "learning_plan"
    /\ ran' = Append(ran, "learning_plan")
    /\ LET cid == state.selected_candidate_id
           arg == <<GapsFor(state), weak_points(state.evaluation[1].detailed)>> IN
        \/ \E out \in PlanResponses(cid) :
            /\ calls' = Append(calls, Generate("learning_plan", cid, arg, TRUE))
            /\ state' = PlanUpdate(state, out)
            /\ pc' = Edge("learning_plan")
        \/ /\ calls' = Append(calls, Generate("learning_plan", cid, arg, FALSE))
           /\ pc' = "raised"
           /\ UNCHANGED state
    /\ UNCHANGED <<site, input, all_matches, idx, rejected>>
    /\ UNCHANGED rvars

----------------------------------------------------------------------------
(* Callers of app.invoke (src/src/main.py, src/streamlit_app.py)           *)

EmptyAnswers == [q \in {} |-> ""]

\* the initial state dict with "answers": {} of the first invocation
FirstInput(cands) ==
    [jd_query |-> JdQuery, candidate_ids |-> cands,
     screening |-> None, selected_candidate_id |-> None, questions |-> None,
     answers |-> EmptyAnswers, evaluation |-> None, learning_plan |-> None]

\* a first invocation's outputs, as the caller keeps them for the second one
SnapshotCands == <<"c1", "c2">>
SnapshotScreening ==
    ScreeningOutput(<<CandidateMatch("c2", 90), CandidateMatch("c1", 40)>>)
SnapshotQuestions ==
    [candidate_id |-> "c2", questions |-> <<InterviewQuestion("q1"), InterviewQuestion("q2")>>]

\* the answers collected for the snapshot's questions, one key per question text
SnapshotAnswers ==
    {[q \in QTexts |-> IF q = "q1" THEN "a1" ELSE a2] : a2 \in {"", "a2"}}

\* a first invocation that returned one question only, and its answer
SnapshotShortQuestions == [candidate_id |-> "c2", questions |-> <<InterviewQuestion("q1")>>]
SnapshotShortAnswers == [q \in {"q1"} |-> "a1"]

\* the state dict of the second invocation: the kept outputs plus the answers;
\* the selected candidate is the top one, or the one picked in the select box
ResumeInputs ==
    {[jd_query |-> JdQuery, candidate_ids |-> SnapshotCands,
      screening |-> Some(SnapshotScreening), selected_candidate_id |-> Some(sel),
      questions |-> Some(SnapshotQuestions),
      answers |-> ans, evaluation |-> None, learning_plan |-> None] :
        sel \in {"c1", "c2"}, ans \in SnapshotAnswers}
    \cup
    {[jd_query |-> JdQuery, candidate_ids |-> SnapshotCands,
      screening |-> Some(SnapshotScreening), selected_candidate_id |-> Some("c2"),
      questions |-> Some(SnapshotShortQuestions),
      answers |-> SnapshotShortAnswers, evaluation |-> None, learning_plan |-> None]}

\* the report script is not running
ReportIdle ==
    /\ rpc = "idle"
    /\ data = None
    /\ ri = 0
    /\ records = <<>>
    /\ ragas_runs = 0
    /\ scores = None
    /\ final_report = <<>>
    /\ judge_calls = <<>>
    /\ written = <<>>

Init ==
    /\ ReportIdle
    /\ \/ site = "first" /\ input \in {FirstInput(cands) : cands \in CandLists}
       \/ site = "resume" /\ input \in ResumeInputs
    /\ state = input
    /\ pc = "screen_resumes"
    /\ all_matches = <<>>
    /\ idx = 0
    /\ ran = <<>>
    /\ calls = <<>>
    /\ rejected = None

Next ==
    \/ node_screen_resumes
    \/ node_generate_questions
    \/ node_evaluate_answers
    \/ node_learning_plan

Spec == Init /\ [][Next]_vars

\* execution is synchronous: a node that can run does run
FairSpec == Spec /\ WF_vars(Next)

\* the objects the caller dumps to final_output.json after the second
\* invocation: screening and questions as kept from the first invocation,
\* evaluation and learning_plan as the second invocation returned them
FinalOutput ==
    [screening |-> input.screening[1], questions |-> input.questions[1],
     evaluation |-> state.evaluation[1], learning_plan |-> state.learning_plan[1]]

----------------------------------------------------------------------------
(* model_dump, json.dump and the way back through json.load and the schema  *)

\* JSON values
JNull == [t |-> "null"]
JStr(x) == [t |-> "string", v |-> x]
JNum(n) == [t |-> "number", v |-> n]
JArr(xs) == [t |-> "array", v |-> xs]
JObj(r) == [t |-> "object", v |-> r]

\* List[str]
DumpStrList(xs) == JArr([i \in 1..Len(xs) |-> JStr(xs[i])])
ParseStrList(j) == [i \in 1..Len(j.v) |-> j.v[i].v]

\* Optional[str]: None is written as null
DumpOptionalStr(o) == IF o = None THEN JNull ELSE JStr(o[1])
ParseOptionalStr(j) == IF j.t = "null" THEN None ELSE Some(j.v)

\* Optional[List[str]]
DumpOptionalStrList(o) == IF o = None THEN JNull ELSE DumpStrList(o[1])

\* as ParseOptionalStrList, but null is read as an empty list
ParseOptionalStrListNullAsEmpty(j) ==
    IF j.t = "null" THEN Some(<<>>) ELSE Some(ParseStrList(j))

ParseOptionalStrList(j) == IF j.t = "null" THEN None ELSE Some(ParseStrList(j))

DumpCandidateMatch(m) ==
    JObj([candidate_id |-> JStr(m.candidate_id), match_score |-> JNum(m.match_score),
          gaps |-> DumpStrList(m.gaps)])
ParseCandidateMatch(j) ==
    [candidate_id |-> j.v.candidate_id.v, match_score |-> j.v.match_score.v,
     gaps |-> ParseStrList(j.v.gaps)]

DumpScreeningOutput(x) ==
    JObj([ranked_candidates |->
            JArr([i \in 1..Len(x.ranked_candidates) |->
                    DumpCandidateMatch(x.ranked_candidates[i])])])
ParseScreeningOutput(j) ==
    [ranked_candidates |->
        [i \in 1..Len(j.v.ranked_candidates.v) |->
            ParseCandidateMatch(j.v.ranked_candidates.v[i])]]

DumpInterviewQuestion(q) ==
    JObj([question |-> JStr(q.question), skill_tested |-> JStr(q.skill_tested),
          expected_answer_outline |-> DumpStrList(q.expected_answer_outline)])
ParseInterviewQuestion(j) ==
    [question |-> j.v.question.v, skill_tested |-> j.v.skill_tested.v,
     expected_answer_outline |-> ParseStrList(j.v.expected_answer_outline)]

DumpQuestionsOutput(x) ==
    JObj([candidate_id |-> JStr(x.candidate_id),
          questions |-> JArr([i \in 1..Len(x.questions) |->
                                DumpInterviewQuestion(x.questions[i])])])
ParseQuestionsOutput(j) ==
    [candidate_id |-> j.v.candidate_id.v,
     questions |-> [i \in 1..Len(j.v.questions.v) |->
                      ParseInterviewQuestion(j.v.questions.v[i])]]

DumpAnswerEvaluationItem(it) ==
    JObj([question |-> JStr(it.question), answer |-> JStr(it.answer),
          score |-> JNum(it.score), missing_points |-> DumpStrList(it.missing_points)])
ParseAnswerEvaluationItem(j) ==
    [question |-> j.v.question.v, answer |-> j.v.answer.v, score |-> j.v.score.v,
     missing_points |-> ParseStrList(j.v.missing_points)]

DumpAnswerEvaluationOutput(x) ==
    JObj([candidate_id |-> JStr(x.candidate_id), overall_score |-> JNum(x.overall_score),
          detailed |-> JArr([i \in 1..Len(x.detailed) |->
                               DumpAnswerEvaluationItem(x.detailed[i])]),
          final_verdict |-> JStr(x.final_verdict)])
ParseAnswerEvaluationOutput(j) ==
    [candidate_id |-> j.v.candidate_id.v, overall_score |-> j.v.overall_score.v,
     detailed |-> [i \in 1..Len(j.v.detailed.v) |->
                     ParseAnswerEvaluationItem(j.v.detailed.v[i])],
     final_verdict |-> j.v.final_verdict.v]

DumpWeeklyPlan(w) ==
    JObj([week |-> JNum(w.week), goals |-> DumpStrList(w.goals),
          topics |-> DumpStrList(w.topics), resources |-> DumpStrList(w.resources)])
ParseWeeklyPlan(j) ==
    [week |-> j.v.week.v, goals |-> ParseStrList(j.v.goals),
     topics |-> ParseStrList(j.v.topics), resources |-> ParseStrList(j.v.resources)]

DumpLearningPlan(x) ==
    JObj([candidate_id |-> DumpOptionalStr(x.candidate_id),
          summary |-> DumpOptionalStr(x.summary),
          plan_by_week |-> JArr([i \in 1..Len(x.plan_by_week) |->
                                   DumpWeeklyPlan(x.plan_by_week[i])]),
          practice_projects |-> DumpOptionalStrList(x.practice_projects),
          resources |-> DumpOptionalStrList(x.resources),
          focus_areas |-> DumpOptionalStrList(x.focus_areas),
          recommended_resources |-> DumpStrList(x.recommended_resources)])
ParseLearningPlan(j) ==
    [candidate_id |-> ParseOptionalStr(j.v.candidate_id),
     summary |-> ParseOptionalStr(j.v.summary),
     plan_by_week |-> [i \in 1..Len(j.v.plan_by_week.v) |->
                         ParseWeeklyPlan(j.v.plan_by_week.v[i])],
     practice_projects |-> ParseOptionalStrList(j.v.practice_projects),
     resources |-> ParseOptionalStrList(j.v.resources),
     focus_areas |-> ParseOptionalStrList(j.v.focus_areas),
     recommended_resources |-> ParseStrList(j.v.recommended_resources)]

\* the object json.dump writes to final_output.json
DumpFinalOutput(o) ==
    JObj([screening |-> DumpScreeningOutput(o.screening),
          questions |-> DumpQuestionsOutput(o.questions),
          evaluation |-> DumpAnswerEvaluationOutput(o.evaluation),
          learning_plan |-> DumpLearningPlan(o.learning_plan)])

\* each section of the loaded object validated as its schema
ParseFinalOutput(j) ==
    [screening |-> ParseScreeningOutput(j.v.screening),
     questions |-> ParseQuestionsOutput(j.v.questions),
     evaluation |-> ParseAnswerEvaluationOutput(j.v.evaluation),
     learning_plan |-> ParseLearningPlan(j.v.learning_plan)]

----------------------------------------------------------------------------
(* Report aggregator (src/ragas_eval.py)                                   *)

MaxItems == 2   \* longest evaluation.detailed list of a loaded output

\* texts the script inspects are sequences of characters
Whitespace == {" ", "\t"}

RECURSIVE lstrip(_)
lstrip(x) == IF x # <<>> /\ Head(x) \in Whitespace THEN lstrip(Tail(x)) ELSE x

RECURSIVE rstrip(_)
rstrip(x) ==
    IF x # <<>> /\ x[Len(x)] \in Whitespace THEN rstrip(SubSeq(x, 1, Len(x) - 1)) ELSE x

\* as strip, but the text is left as it is
stripNothing(x) == x

\* str.strip()
strip(x) == rstrip(lstrip(x))

\* sep.join(xs)
RECURSIVE join(_, _)
join(sep, xs) ==
    IF xs = <<>> THEN <<>>
    ELSE IF Len(xs) = 1 THEN xs[1]
    ELSE xs[1] \o sep \o join(sep, Tail(xs))

\* the dict comprehension: a later question with the same text replaces an
\* earlier one
outline_map(questions) ==
    [q \in {questions[i].question : i \in 1..Len(questions)} |->
        LET last == CHOOSE i \in 1..Len(questions) :
                        /\ questions[i].question = q
                        /\ \A j \in (i + 1)..Len(questions) : questions[j].question # q
        IN join(<<" ">>, questions[last].expected_answer_outline)]

\* outline_map.get(question): None when the key is missing
ref(questions, question) ==
    IF question \in DOMAIN outline_map(questions)
    THEN Some(outline_map(questions)[question])
    ELSE None

\* truth value of an Optional[str]: None and "" are false
Truthy(o) == o # None /\ o[1] # <<>>

\* the two ifs around records.append
AppendsRecord(questions, ev) ==
    /\ strip(ev.answer) # <<>>
    /\ Truthy(ref(questions, ev.question))

\* the record appended for ev; contexts is the default [ref], as a persisted
\* item has no retrieved_contexts key
Record(questions, ev) ==
    [question |-> ev.question, answer |-> ev.answer,
     contexts |-> <<ref(questions, ev.question)[1]>>,
     reference |-> ref(questions, ev.question)[1]]

\* Python's round to the nearest integer of num/den (num >= 0, den > 0), an
\* exact half going to the even neighbour
round(num, den) ==
    LET q == num \div den
        r == num % den
    IN IF 2 * r < den THEN q
       ELSE IF 2 * r > den THEN q + 1
       ELSE IF q % 2 = 0 THEN q ELSE q + 1

\* sum of one metric column of the result frame, in thousandths
RECURSIVE ColumnSum(_, _)
ColumnSum(rows, m) ==
    IF rows = <<>> THEN 0 ELSE rows[1][m] + ColumnSum(Tail(rows), m)

\* as candidate_score, but the last decimal is cut off instead of rounded
candidate_scoreTruncated(rel, faith, prec, den) == (50 * (rel + faith + prec)) \div (3 * den)

\* round((avg_relevancy + avg_faithfulness + avg_precision) / 3 * 5, 1), in
\* tenths; the averages are rel/den, faith/den and prec/den
candidate_score(rel, faith, prec, den) == round(50 * (rel + faith + prec), 3 * den)

\* the averages and the score after ragas evaluate returned rows
ScoresOf(rows) ==
    LET den == 1000 * Len(rows)
        rel == ColumnSum(rows, 1)
        faith == ColumnSum(rows, 2)
        prec == ColumnSum(rows, 3)
    IN [den |-> den, avg_relevancy |-> rel, avg_faithfulness |-> faith,
        avg_precision |-> prec, candidate_score |-> candidate_score(rel, faith, prec, den)]

\* the else branch: all four are 0.0
ZeroScores ==
    [den |-> 1000, avg_relevancy |-> 0, avg_faithfulness |-> 0, avg_precision |-> 0,
     candidate_score |-> 0]

\* final_report["candidate_answer_evaluation"]: the score in tenths and the
\* averages rounded to thousandths (the fixed texts are left out)
CandidateSection(sc) ==
    [score |-> sc.candidate_score,
     detailed_metrics |->
        [answer_relevancy |-> round(1000 * sc.avg_relevancy, sc.den),
         faithfulness |-> round(1000 * sc.avg_faithfulness, sc.den),
         context_precision |-> round(1000 * sc.avg_precision, sc.den)]]

\* per-answer metric values ragas may return, in thousandths; on this grid no
\* average of up to four rows lies exactly between two tenths
MetricRows == {<<800, 600, 1000>>, <<600, 800, 800>>, <<1000, 1000, 1000>>}

\* as JudgeOrder, but the learning plan is judged before the evaluation
JudgeOrderSwapped ==
    <<"screening_agent_evaluation", "question_generation_agent_evaluation",
      "learning_plan_agent_evaluation", "evaluation_agent_evaluation">>

\* the four agent judges in the order the script calls them
JudgeOrder ==
    <<"screening_agent_evaluation", "question_generation_agent_evaluation",
      "evaluation_agent_evaluation", "learning_plan_agent_evaluation">>

\* the DATA a judge's prompt carries
JudgeInput(key) ==
    CASE key = "screening_agent_evaluation" -> data[1].screening.ranked_candidates
      [] key = "question_generation_agent_evaluation" -> data[1].questions.questions
      [] key = "evaluation_agent_evaluation" -> data[1].evaluation.detailed
      [] key = "learning_plan_agent_evaluation" -> data[1].learning_plan

\* the JSON object a judge answers with, once json.loads has parsed it
Critique(key) == [judge |-> key, score |-> 4]

\* the .content of a judge's response: the text of a JSON object, or text
\* that is not JSON (prose, or the object inside a Markdown code fence)
JsonText(key) == [json |-> TRUE, body |-> key]
NotJsonText == [json |-> FALSE, body |-> "fenced"]

\* what llm.invoke may hand back to the judge at key: None when the call itself
\* raises, else a response with one of the two contents
JudgeReplies(key) == {None, Some(JsonText(key)), Some(NotJsonText)}

\* as loads, but text that is not JSON is read as an empty critique
loadsLenient(text) ==
    IF text.json THEN Some(Critique(text.body)) ELSE Some([judge |-> "", score |-> 0])

\* json.loads: the parsed object, or None when it raises JSONDecodeError
loads(text) == IF text.json THEN Some(Critique(text.body)) ELSE None

\* the value of json.loads(llm.invoke(prompt).content), None when either raises
Parsed(reply) == IF reply = None THEN None ELSE loads(reply[1])

JudgeCall(key, inp, reply, ok) == [key |-> key, input |-> inp, reply |-> reply, ok |-> ok]

\* the block that follows the judge at position k
AfterJudge(k) ==
    IF k < Len(JudgeOrder) THEN JudgeOrder[k + 1] ELSE "overall_system_evaluation"

\* one pass of the for loop over evaluation
RecordsIterate ==
    /\ rpc = "records"
    /\ ri \in 1..Len(data[1].evaluation.detailed)
    /\ LET ev == data[1].evaluation.detailed[ri]
           questions == data[1].questions.questions
       IN records' = IF AppendsRecord(questions, ev)
                     THEN Append(records, Record(questions, ev))
                     ELSE records
    /\ ri' = ri + 1
    /\ UNCHANGED <<rpc, data, ragas_runs, scores, final_report, judge_calls, written>>
    /\ UNCHANGED pvars

\* if records: ragas evaluate returns one row per record (or raises), the
\* averages and the score are computed and the candidate section is stored
RagasEvaluate ==
    /\ rpc = "records"
    /\ ri > Len(data[1].evaluation.detailed)
    /\ records # <<>>
    /\ ragas_runs' = ragas_runs + 1
    /\ \/ \E rows \in [1..Len(records) -> MetricRows] :
            /\ scores' = Some(ScoresOf(rows))
            /\ final_report' =
                <<<<"candidate_answer_evaluation", CandidateSection(ScoresOf(rows))>>>>
            /\ rpc' = JudgeOrder[1]
       \/ /\ rpc' = "raised"
          /\ UNCHANGED <<scores, final_report>>
    /\ UNCHANGED <<data, ri, records, judge_calls, written>>
    /\ UNCHANGED pvars

\* else: no metric evaluation, all averages and the score are 0.0
SkipMetrics ==
    /\ rpc = "records"
    /\ ri > Len(data[1].evaluation.detailed)
    /\ records = <<>>
    /\ scores' = Some(ZeroScores)
    /\ final_report' = <<<<"candidate_answer_evaluation", CandidateSection(ZeroScores)>>>>
    /\ rpc' = JudgeOrder[1]
    /\ UNCHANGED <<data, ri, records, ragas_runs, judge_calls, written>>
    /\ UNCHANGED pvars

\* one of the four agent judges: the call is made and its answer parsed and
\* stored under the judge's key, or the call or json.loads raises
Judge ==
    \E k \in 1..Len(JudgeOrder) :
        /\ rpc = JudgeOrder[k]
        /\ \E reply \in JudgeReplies(rpc) :
            /\ judge_calls' = Append(judge_calls,
                    JudgeCall(rpc, JudgeInput(rpc), reply, Parsed(reply) # None))
            /\ \/ /\ Parsed(reply) # None
                  /\ final_report' = Append(final_report, <<rpc, Parsed(reply)[1]>>)
                  /\ rpc' = AfterJudge(k)
               \/ /\ Parsed(reply) = None
                  /\ rpc' = "raised"
                  /\ UNCHANGED final_report
        /\ UNCHANGED <<data, ri, records, ragas_runs, scores, written>>
        /\ UNCHANGED pvars

\* the overall judge reads json.dumps(final_report); its parsed answer is
\* added under overall_system_evaluation
JudgeOverall ==
    /\ rpc = "overall_system_evaluation"
    /\ \E reply \in JudgeReplies(rpc) :
        /\ judge_calls' = Append(judge_calls,
                JudgeCall(rpc, final_report, reply, Parsed(reply) # None))
        /\ \/ /\ Parsed(reply) # None
              /\ final_report' = Append(final_report, <<rpc, Parsed(reply)[1]>>)
              /\ rpc' = "write_json"
           \/ /\ Parsed(reply) = None
              /\ rpc' = "raised"
              /\ UNCHANGED final_report
    /\ UNCHANGED <<data, ri, records, ragas_runs, scores, written>>
    /\ UNCHANGED pvars

WriteJson ==
    /\ rpc = "write_json"
    /\ written' = Append(written, [name |-> "recuruitment_system_evaluation.json",
                               content |-> final_report])
    /\ rpc' = "write_csv"
    /\ UNCHANGED <<data, ri, records, ragas_runs, scores, final_report, judge_calls>>
    /\ UNCHANGED pvars

WriteCsv ==
    /\ rpc = "write_csv"
    /\ written' = Append(written, [name |-> "recuruitment_system_evaluation.csv",
                               content |-> final_report])
    /\ rpc' = "done"
    /\ UNCHANGED <<data, ri, records, ragas_runs, scores, final_report, judge_calls>>
    /\ UNCHANGED pvars

\* persisted questions: none, one with an outline, one with an outline and one
\* with an empty outline, and a repeated text whose later outline is empty
ReportQuestion(q, outline) ==
    [question |-> q, skill_tested |-> "skill", expected_answer_outline |-> outline]

ReportQuestionLists ==
    {<<>>,
     <<ReportQuestion("q1", <<<<"o", "1">>, <<"o", "2">>>>)>>,
     <<ReportQuestion("q1", <<<<"o", "1">>>>), ReportQuestion("q2", <<>>)>>,
     <<ReportQuestion("q2", <<<<"o", "3">>>>), ReportQuestion("q2", <<>>)>>}

\* persisted answers: empty, whitespace only, and text with whitespace around
ReportAnswers == {<<>>, <<" ", "\t">>, <<" ", "a", " ">>}

\* persisted evaluation items; "qx" is a question text no persisted question has
ReportItems ==
    {[question |-> q, answer |-> a, score |-> 6, missing_points |-> <<>>] :
        q \in {"q1", "q2", "qx"}, a \in ReportAnswers}

\* what json.load may return for a final_output.json a finished run wrote
ReportData ==
    {[screening |-> [ranked_candidates |-> <<CandidateMatch("c2", 90)>>],
      questions |-> [candidate_id |-> "c2", questions |-> qs],
      evaluation |-> [candidate_id |-> "c2", overall_score |-> 65, detailed |-> d,
                      final_verdict |-> "Hire"],
      learning_plan |-> [candidate_id |-> "c2", plan_by_week |-> <<WeeklyPlan(1)>>]] :
        qs \in ReportQuestionLists,
        d \in UNION {[1..n -> ReportItems] : n \in 0..MaxItems}}

\* no pipeline runs in the script's process
PipelineIdle ==
    /\ site = "none"
    /\ input = FirstInput(<<>>)
    /\ state = input
    /\ pc = "END"
    /\ all_matches = <<>>
    /\ idx = 0
    /\ ran = <<>>
    /\ calls = <<>>
    /\ rejected = None

\* the script has loaded final_output.json and is about to collect records
ReportInit ==
    /\ PipelineIdle
    /\ rpc = "records"
    /\ data \in {Some(d) : d \in ReportData}
    /\ ri = 1
    /\ records = <<>>
    /\ ragas_runs = 0
    /\ scores = None
    /\ final_report = <<>>
    /\ judge_calls = <<>>
    /\ written = <<>>

ReportNext ==
    \/ RecordsIterate
    \/ RagasEvaluate
    \/ SkipMetrics
    \/ Judge
    \/ JudgeOverall
    \/ WriteJson
    \/ WriteCsv

ReportSpec == ReportInit /\ [][ReportNext]_vars

----------------------------------------------------------------------------
(* Properties                                                              *)

StageOrder == <<"screen_resumes", "generate_questions", "evaluate_answers", "learning_plan">>

IsPrefix(a, b) == Len(a) <= Len(b) /\ \A i \in 1..Len(a) : a[i] = b[i]

\* node n has started and returned
Completed(n) ==
    /\ \E k \in 1..Len(ran) : ran[k] = n
    /\ pc # n
    /\ ~(pc = "raised" /\ ran[Len(ran)] = n)

Ranked == state.screening[1].ranked_candidates

GenerateCallsOf(node) ==
    SelectSeq(calls, LAMBDA c : c.kind = "generate" /\ c.node = node)

\* C1: one invocation starts the nodes in the order screen_resumes,
\* generate_questions, evaluate_answers, learning_plan, each at most once, moving
\* only from a node to the next one (or out by an exception); at END all four
\* have run; and if no call raises, the invocation eventually reaches END.
C1_FixedOrder ==
    /\ [][pc' # pc =>
            \/ pc' = "raised"
            \/ \E k \in 1..Len(StageOrder) :
                /\ pc = StageOrder[k]
                /\ pc' = (IF k < Len(StageOrder) THEN StageOrder[k + 1] ELSE "END")]_vars
    /\ [](IsPrefix(ran, StageOrder))
    /\ [](pc = "END" => ran = StageOrder)
    /\ ([](pc # "raised") => <>(pc = "END"))

C1_Witness == site = "first" /\ pc = "END" /\ ran = StageOrder

\* C2: an invocation resumed with a snapshot whose screening,
\* selected_candidate_id, questions and answers are filled runs only
\* evaluate_answers and learning_plan, and ends with the snapshot's screening,
\* selected_candidate_id and questions.
C2_ResumeRunsLastTwoOnly ==
    (site = "resume" /\ pc = "END") =>
        /\ ran = <<"evaluate_answers", "learning_plan">>
        /\ state.screening = input.screening
        /\ state.selected_candidate_id = input.selected_candidate_id
        /\ state.questions = input.questions

\* C3: the first invocation (empty answer map) runs only screen_resumes and
\* generate_questions: when it returns, evaluation and learning_plan are null and
\* no generation call of evaluate_answers or learning_plan was made.
C3_FirstRunsFirstTwoOnly ==
    (site = "first" /\ pc = "END") =>
        /\ state.evaluation = None
        /\ state.learning_plan = None
        /\ GenerateCallsOf("evaluate_answers") = <<>>
        /\ GenerateCallsOf("learning_plan") = <<>>

ScoresIn(ms) == {ms[i].match_score : i \in 1..Len(ms)}

WithScore(ms, s) == SelectSeq(ms, LAMBDA m : m.match_score = s)

ExampleMatches ==
    <<CandidateMatch("c1", 40), CandidateMatch("c2", 90),
      CandidateMatch("c3", 90), CandidateMatch("c4", 10)>>

\* C4: the ranking screen_resumes writes is ordered by match_score
\* non-increasing, and the matches of each score appear in it in the order they
\* were generated; scores [40, 90, 90, 10] give the two 90s in their original
\* order, then 40, then 10.
C4_StableDescending ==
    /\ Completed("screen_resumes") =>
        /\ Len(Ranked) = Len(all_matches)
        /\ \A i \in 1..(Len(Ranked) - 1) :
            Ranked[i].match_score >= Ranked[i + 1].match_score
        /\ \A s \in ScoresIn(all_matches) \cup ScoresIn(Ranked) :
            WithScore(Ranked, s) = WithScore(all_matches, s)
    /\ SortedDesc(ExampleMatches) =
        <<ExampleMatches[2], ExampleMatches[3], ExampleMatches[1], ExampleMatches[4]>>

\* a tie between two different candidates, below a higher score that was
\* generated after the first of them
C4_Witness ==
    /\ Completed("screen_resumes")
    /\ Ranked # all_matches
    /\ \E i \in 1..Len(Ranked) : \E j \in (i + 1)..Len(Ranked) :
        /\ Ranked[i].match_score = Ranked[j].match_score
        /\ Ranked[i].candidate_id # Ranked[j].candidate_id

\* C5: for a non-empty list of distinct candidate ids, the ranking holds exactly
\* one CandidateMatch per input id: none missing, none twice, none foreign.
C5_OneMatchPerCandidate ==
    (Completed("screen_resumes") /\ state.candidate_ids # <<>>) =>
        /\ Len(Ranked) = Len(state.candidate_ids)
        /\ {Ranked[i].candidate_id : i \in 1..Len(Ranked)}
            = {state.candidate_ids[i] : i \in 1..Len(state.candidate_ids)}

\* C6: after screen_resumes, selected_candidate_id is the candidate_id of the
\* first ranked entry; with an empty candidate list the node makes no generation
\* call, does not raise, and yields an empty ranking and a null
\* selected_candidate_id.
C6_TopCandidateSelected ==
    /\ Completed("screen_resumes") =>
        state.selected_candidate_id =
            (IF Ranked = <<>> THEN None ELSE Some(Ranked[1].candidate_id))
    /\ state.candidate_ids = <<>> =>
        /\ GenerateCallsOf("screen_resumes") = <<>>
        /\ ~(pc = "raised" /\ ran = <<"screen_resumes">>)
        /\ Completed("screen_resumes") =>
            /\ state.screening = Some(ScreeningOutput(<<>>))
            /\ state.selected_candidate_id = None

C6_Witness ==
    /\ state.candidate_ids = <<>>
    /\ pc = "generate_questions"
    /\ state.screening = Some(ScreeningOutput(<<>>))
    /\ state.selected_candidate_id = None

\* C7: with an empty candidate list (null selected_candidate_id) the nodes after
\* screen_resumes make no retrieval and no generation call.
C7_NullCandidateShortCircuits ==
    state.candidate_ids = <<>> =>
        \A i \in 1..Len(calls) : calls[i].node = "screen_resumes"

\* C8: a generation call that raises during screening is the last call of the
\* invocation (none for the remaining candidates, no retry, no later node), the
\* invocation has raised, and screening and selected_candidate_id keep the values
\* they had; the screening generation calls are one per candidate, in list order.
C8_ScreeningFailureAborts ==
    /\ \A i \in 1..Len(calls) :
        (calls[i].kind = "generate" /\ calls[i].node = "screen_resumes" /\ ~calls[i].ok) =>
            /\ i = Len(calls)
            /\ pc = "raised"
            /\ ran = <<"screen_resumes">>
            /\ state.screening = input.screening
            /\ state.selected_candidate_id = input.selected_candidate_id
    /\ IsPrefix([i \in 1..Len(GenerateCallsOf("screen_resumes")) |->
                    GenerateCallsOf("screen_resumes")[i].cid],
                [i \in 1..Len(state.candidate_ids) |-> Some(state.candidate_ids[i])])

\* the call for the second candidate raised with a match already collected
C8_Witness ==
    /\ site = "resume"
    /\ pc = "raised"
    /\ idx = 2
    /\ all_matches # <<>>
    /\ state.screening = input.screening
    /\ ~calls[Len(calls)].ok

\* C9: in an invocation started with all output fields null, an output field is
\* non-null only if the node that produces it has completed.
C9_NonNullOnlyAfterProducer ==
    site = "first" =>
        /\ state.screening # None => Completed("screen_resumes")
        /\ state.selected_candidate_id # None => Completed("screen_resumes")
        /\ state.questions # None => Completed("generate_questions")
        /\ state.evaluation # None => Completed("evaluate_answers")
        /\ state.learning_plan # None => Completed("learning_plan")

C9_Witness ==
    /\ site = "first"
    /\ pc = "learning_plan"
    /\ state.evaluation # None
    /\ state.learning_plan = None

Fields ==
    {"jd_query", "candidate_ids", "screening", "selected_candidate_id",
     "questions", "answers", "evaluation", "learning_plan"}

Owned(node) ==
    CASE node = "screen_resumes" -> {"screening", "selected_candidate_id"}
      [] node = "generate_questions" -> {"questions"}
      [] node = "evaluate_answers" -> {"evaluation"}
      [] node = "learning_plan" -> {"learning_plan"}
      [] OTHER -> {}

\* C10: a step of a node changes no state field but the ones the node owns
\* (screen_resumes: screening and selected_candidate_id; generate_questions:
\* questions; evaluate_answers: evaluation; learning_plan: learning_plan), so
\* jd_query, candidate_ids and answers never change.
C10_NodesKeepOtherFields ==
    [][/\ \A f \in Fields \ Owned(pc) : state'[f] = state[f]
       /\ state'.jd_query = input.jd_query
       /\ state'.candidate_ids = input.candidate_ids
       /\ state'.answers = input.answers]_vars

\* a resumed invocation in which every node overwrote its field and the answers
\* are still the collected ones
C10_Witness ==
    /\ site = "resume"
    /\ pc = "END"
    /\ state.questions # input.questions
    /\ state.screening # input.screening
    /\ state.answers = input.answers
    /\ \E q \in DOMAIN state.answers : state.answers[q] # ""

\* the node that raised, if one did
RaisedIn(n) == pc = "raised" /\ ran # <<>> /\ ran[Len(ran)] = n

\* C11: evaluate_answers makes exactly one generation call, and the bundle it
\* sends has one entry per question of the question set, in question order,
\* whose answer is the answer-map value under that question's exact text, or the
\* empty string when the map has no such key; other keys of the map are ignored.
C11_OneBundlePerQuestion ==
    LET ev == GenerateCallsOf("evaluate_answers") IN
    /\ Len(ev) <= 1
    /\ (Completed("evaluate_answers") \/ RaisedIn("evaluate_answers")) => Len(ev) = 1
    /\ \A k \in 1..Len(ev) :
        LET b == ev[k].arg
            qs == state.questions[1].questions IN
        /\ Len(b) = Len(qs)
        /\ \A i \in 1..Len(qs) :
            /\ b[i].question = qs[i].question
            /\ b[i].expected_answer_outline = qs[i].expected_answer_outline
            /\ b[i].answer = (IF qs[i].question \in DOMAIN state.answers
                                THEN state.answers[qs[i].question] ELSE "")

\* a bundle with a collected answer and with a question the map has no key for
C11_Witness ==
    /\ Completed("evaluate_answers")
    /\ LET b == GenerateCallsOf("evaluate_answers")[1].arg IN
        /\ \E i \in 1..Len(b) : b[i].answer = "a1"
        /\ \E i \in 1..Len(b) : b[i].question \notin DOMAIN state.answers /\ b[i].answer = ""

\* detailed has one item per question, with the question's text, in order
DetailedMatches(questions_output, evaluation) ==
    /\ Len(evaluation.detailed) = Len(questions_output.questions)
    /\ \A i \in 1..Len(evaluation.detailed) :
        evaluation.detailed[i].question = questions_output.questions[i].question

\* the provider answered the evaluation call with one item per bundle entry
ProviderKeptBundle ==
    /\ GenerateCallsOf("evaluate_answers") # <<>>
    /\ LET b == GenerateCallsOf("evaluate_answers")[1].arg IN
        /\ Len(state.evaluation[1].detailed) = Len(b)
        /\ \A i \in 1..Len(b) : state.evaluation[1].detailed[i].question = b[i].question

\* C12: (with a provider that returns one item per bundle entry, in bundle
\* order) whenever questions and evaluation are both set, evaluation.detailed
\* has the length of questions.questions and its i-th item carries the i-th
\* question's text; the same holds of the questions and evaluation in the
\* persisted pipeline output.
C12_DetailedMatchesQuestions ==
    (state.questions # None /\ state.evaluation # None /\ ProviderKeptBundle) =>
        /\ DetailedMatches(state.questions[1], state.evaluation[1])
        /\ (site = "resume" /\ pc = "END") =>
            DetailedMatches(FinalOutput.questions, FinalOutput.evaluation)

\* the missing_points of the first n items, those of score 7 or more left out
RECURSIVE WeakOfFirst(_, _)
WeakOfFirst(detailed, n) ==
    IF n = 0 THEN <<>>
    ELSE WeakOfFirst(detailed, n - 1)
         \o (IF detailed[n].score >= 7 THEN <<>> ELSE detailed[n].missing_points)

ExampleDetailed ==
    <<[question |-> "q1", answer |-> "a", score |-> 6, missing_points |-> <<"m1", "m2">>],
      [question |-> "q2", answer |-> "b", score |-> 7, missing_points |-> <<"m3">>],
      [question |-> "q3", answer |-> "", score |-> 0, missing_points |-> <<"m2">>]>>

\* C13: the weak-points list handed to the learning-plan generation call is the
\* concatenation, in evaluation order, of the missing_points of every detailed
\* item with score <= 6, duplicates kept; items with score 7 or more add
\* nothing; the evaluation the list was computed from is still the state's, so
\* computing it again gives the same list.
C13_WeakPointsFromLowScores ==
    LET lp == GenerateCallsOf("learning_plan") IN
    /\ Len(lp) <= 1
    /\ \A k \in 1..Len(lp) :
        lp[k].arg[2] =
            WeakOfFirst(state.evaluation[1].detailed, Len(state.evaluation[1].detailed))
    /\ weak_points(ExampleDetailed) = <<"m1", "m2", "m2">>

\* an item of score 6 that contributed next to an item of score 7 that did not
C13_Witness ==
    /\ Completed("learning_plan")
    /\ LET d == state.evaluation[1].detailed IN
        /\ \E i \in 1..Len(d) : d[i].score = 7 /\ d[i].missing_points # <<>>
        /\ \E i \in 1..Len(d) :
            /\ d[i].score = 6
            /\ GenerateCallsOf("learning_plan")[1].arg[2] = d[i].missing_points

\* positions of the ranking whose candidate_id is the selected one
SelectedAt ==
    {i \in 1..Len(Ranked) :
        /\ state.selected_candidate_id # None
        /\ Ranked[i].candidate_id = state.selected_candidate_id[1]}

\* C14: the gap list handed to the learning-plan generation call is the gaps of
\* the first ranked entry whose candidate_id is selected_candidate_id, and the
\* empty list when no entry matches or screening is null or empty; the node
\* makes its generation call in either case.
C14_GapsOfSelectedCandidate ==
    LET lp == GenerateCallsOf("learning_plan") IN
    /\ (Completed("learning_plan") \/ RaisedIn("learning_plan")) => Len(lp) = 1
    /\ \A k \in 1..Len(lp) :
        lp[k].arg[1] =
            (IF SelectedAt = {} THEN <<>>
             ELSE Ranked[CHOOSE i \in SelectedAt : \A j \in SelectedAt : i <= j].gaps)
    /\ FirstGaps(<<CandidateMatch("c1", 40)>>, Some("c2")) = <<>>
    /\ GapsFor(FirstInput(<<"c1">>)) = <<>>

\* the plan was generated for an empty ranking: no entry matches, no gaps
C14_Witness ==
    /\ Completed("learning_plan")
    /\ state.candidate_ids # <<>>
    /\ Ranked = <<>>
    /\ state.selected_candidate_id = None
    /\ GenerateCallsOf("learning_plan")[1].arg[1] = <<>>
    /\ GenerateCallsOf("learning_plan")[1].ok

\* the three verdicts the comment at the final_verdict field names
DocumentedVerdicts == {"Hire", "Strong Consider", "No Hire"}

\* C15: every evaluation the pipeline has accepted into its state carries a
\* final_verdict that is one of Hire, Strong Consider, No Hire.
C15_VerdictIsDocumented ==
    state.evaluation # None => state.evaluation[1].final_verdict \in DocumentedVerdicts

\* C16: a CandidateMatch whose match_score is outside 0..100 is not
\* constructed: the call that carried it raises, and the value is stored
\* nowhere, neither as it is nor clamped.  So every match_score the pipeline
\* holds is in 0..100, every detailed item score is in 0..10 and overall_score
\* is in 0..100.
C16_ScoresWithinBounds ==
    /\ \A i \in 1..Len(all_matches) : all_matches[i].match_score \in 0..100
    /\ state.screening # None =>
        \A i \in 1..Len(Ranked) : Ranked[i].match_score \in 0..100
    /\ state.evaluation # None =>
        /\ state.evaluation[1].overall_score \in 0..100
        /\ \A i \in 1..Len(state.evaluation[1].detailed) :
            state.evaluation[1].detailed[i].score \in 0..10
    /\ rejected # None =>
        /\ pc = "raised"
        /\ ~calls[Len(calls)].ok
        /\ RaisedIn("screen_resumes") => state.screening = input.screening
        /\ state.evaluation = input.evaluation
    /\ ~ValidCandidateMatch(CandidateMatch("c1", 101))
    /\ ~ValidCandidateMatch(CandidateMatch("c1", -1))
    /\ ValidCandidateMatch(CandidateMatch("c1", 0))
    /\ ValidCandidateMatch(CandidateMatch("c1", 100))

\* the second candidate's answer carried a match_score of 101 next to a valid
\* one: the call raised, and the matches collected before it are untouched
C16_Witness ==
    /\ RaisedIn("screen_resumes")
    /\ rejected # None
    /\ \E i \in 1..Len(rejected[1]) : rejected[1][i].match_score = 101
    /\ \E i \in 1..Len(rejected[1]) : rejected[1][i].match_score = 90
    /\ idx = 2
    /\ all_matches # <<>>

\* C20: writing a finished run's screening, questions, evaluation and
\* learning_plan as the persisted JSON object and reading each section back as
\* its schema gives values equal to the originals, field by field; the values
\* read back pass the schemas' range checks.
C20_JsonRoundTrip ==
    (site = "resume" /\ pc = "END") =>
        LET back == ParseFinalOutput(DumpFinalOutput(FinalOutput)) IN
        /\ back.screening = FinalOutput.screening
        /\ back.questions = FinalOutput.questions
        /\ back.evaluation = FinalOutput.evaluation
        /\ back.learning_plan = FinalOutput.learning_plan
        /\ ValidScreeningOutput(back.screening.ranked_candidates)
        /\ ValidAnswerEvaluationOutput(back.evaluation)

\* a finished run whose plan left its optional fields out, persisted as nulls
C20_Witness ==
    /\ site = "resume"
    /\ pc = "END"
    /\ FinalOutput.learning_plan.focus_areas = None
    /\ DumpFinalOutput(FinalOutput).v.learning_plan.v.focus_areas = JNull
    /\ FinalOutput.evaluation.detailed # <<>>
    /\ FinalOutput.screening.ranked_candidates # <<>>

\* the records loop of the report script is over
RecordsDone == rpc \notin {"idle", "records"} \/ (rpc = "records" /\ ri > Len(data[1].evaluation.detailed))

\* an answer with no character other than whitespace
IsBlank(answer) == \A i \in 1..Len(answer) : answer[i] \in Whitespace

\* positions of the loaded evaluation items whose answer is not blank
Answered == {i \in 1..Len(data[1].evaluation.detailed) : ~IsBlank(data[1].evaluation.detailed[i].answer)}

\* the loaded questions have an entry for text q, and the last such entry has a
\* non-empty outline text
HasReference(q) ==
    LET qs == data[1].questions.questions
        at == {j \in 1..Len(qs) : qs[j].question = q}
    IN /\ at # {}
       /\ LET last == CHOOSE j \in at : \A k \in at : k <= j
              outline == qs[last].expected_answer_outline
          IN Len(outline) > 1 \/ (Len(outline) = 1 /\ outline[1] # <<>>)

\* records holds exactly one record for each position of the set, in order
OneRecordEach(positions) ==
    /\ Len(records) = Cardinality(positions)
    /\ \E f \in [1..Len(records) -> 1..Len(data[1].evaluation.detailed)] :
        /\ \A k \in 1..Len(records) : f[k] \in positions
        /\ \A k \in 1..Len(records) : \A l \in 1..Len(records) : k < l => f[k] < f[l]
        /\ \A k \in 1..Len(records) :
            /\ records[k].question = data[1].evaluation.detailed[f[k]].question
            /\ records[k].answer = data[1].evaluation.detailed[f[k]].answer

\* C17 as stated: once the loop is over, the records are exactly one per
\* evaluation item whose answer is non-empty after trimming whitespace.
C17_RecordIffAnswered == RecordsDone => OneRecordEach(Answered)

\* C17 amended: once the loop is over, the records are exactly one per
\* evaluation item whose answer is non-empty after trimming whitespace and whose
\* question text has a non-empty reference outline among the loaded questions;
\* a blank answer never gives a record.
C17_RecordIffAnsweredWithReference ==
    RecordsDone =>
        OneRecordEach({i \in Answered : HasReference(data[1].evaluation.detailed[i].question)})

\* two items were loaded, one with a whitespace-only answer and one with text
\* and a reference: the loop is over with the one record
C17_Witness ==
    /\ RecordsDone
    /\ Len(data[1].evaluation.detailed) = 2
    /\ data[1].evaluation.detailed[1].answer = <<" ", "\t">>
    /\ data[1].evaluation.detailed[2].answer = <<" ", "a", " ">>
    /\ Len(records) = 1
    /\ records[1].reference # <<>>

\* |x|
Abs(x) == IF x < 0 THEN 0 - x ELSE x

\* C18: candidate_score (in tenths) is the tenth nearest to the mean of the
\* three averages times 5, so averages 0.8, 0.6, 1.0 give 4.0; it is within
\* 0..5 whenever each average is within 0..1; with no record the metric
\* evaluation is not run and the three averages and the score are 0.0; the
\* candidate section of the report carries that score.
C18_CompositeScore ==
    /\ ragas_runs <= 1
    /\ records = <<>> => ragas_runs = 0
    /\ scores # None =>
        LET sc == scores[1]
            total == sc.avg_relevancy + sc.avg_faithfulness + sc.avg_precision
        IN /\ records # <<>> => ragas_runs = 1
           /\ records = <<>> =>
                /\ sc.avg_relevancy = 0 /\ sc.avg_faithfulness = 0 /\ sc.avg_precision = 0
                /\ sc.candidate_score = 0
           /\ 2 * Abs(50 * total - 3 * sc.den * sc.candidate_score) <= 3 * sc.den
           /\ (\A a \in {sc.avg_relevancy, sc.avg_faithfulness, sc.avg_precision} :
                    a \in 0..sc.den)
                => sc.candidate_score \in 0..50
           /\ final_report[1][1] = "candidate_answer_evaluation"
           /\ final_report[1][2].score = sc.candidate_score
    /\ candidate_score(800, 600, 1000, 1000) = 40

\* one record was evaluated with metric values 0.6, 0.8, 0.8: the mean times 5
\* is 3.666..., rounded to 3.7
C18_Witness ==
    /\ scores # None
    /\ Len(records) = 1
    /\ ragas_runs = 1
    /\ scores[1].avg_relevancy = 600
    /\ scores[1].avg_precision = 800
    /\ scores[1].candidate_score = 37

\* the five judges in the order the spec gives them, by their report key
ExpectedJudges ==
    <<"screening_agent_evaluation", "question_generation_agent_evaluation",
      "evaluation_agent_evaluation", "learning_plan_agent_evaluation",
      "overall_system_evaluation">>

\* the keys of a report dict in insertion order
KeysOf(report) == [i \in 1..Len(report) |-> report[i][1]]

\* C19: the judge calls made so far are the first ones of screening, question
\* set, evaluation detail, learning plan, overall summary, each on its part
\* of the loaded output and each made only after every earlier one returned;
\* never more than five, and all five once the script is past them.  The
\* input of the fifth is the report with the candidate-answer section (whose
\* score is the composite score) followed by the four critiques; what is
\* written is the report with exactly the six keys, overall_system_evaluation
\* last.
C19_FiveJudgesInOrder ==
    /\ Len(judge_calls) <= 5
    /\ \A k \in 1..Len(judge_calls) :
        /\ judge_calls[k].key = ExpectedJudges[k]
        /\ k < Len(judge_calls) => judge_calls[k].ok
    /\ Len(judge_calls) >= 1 => judge_calls[1].input = data[1].screening.ranked_candidates
    /\ Len(judge_calls) >= 2 => judge_calls[2].input = data[1].questions.questions
    /\ Len(judge_calls) >= 3 => judge_calls[3].input = data[1].evaluation.detailed
    /\ Len(judge_calls) >= 4 => judge_calls[4].input = data[1].learning_plan
    /\ Len(judge_calls) = 5 =>
        LET given == judge_calls[5].input IN
        /\ KeysOf(given) = <<"candidate_answer_evaluation">> \o SubSeq(ExpectedJudges, 1, 4)
        /\ given[1][2].score = scores[1].candidate_score
        /\ \A k \in 1..4 : given[k + 1][2] = Critique(ExpectedJudges[k])
    /\ rpc \in {"write_json", "write_csv", "done"} =>
        /\ Len(judge_calls) = 5
        /\ \A k \in 1..5 : judge_calls[k].ok
    /\ \A i \in 1..Len(written) :
        /\ KeysOf(written[i].content) = <<"candidate_answer_evaluation">> \o ExpectedJudges
        /\ written[i].content = final_report
    /\ rpc = "done" => Len(written) = 2

\* the script has finished after a metric evaluation: five calls, two files
C19_Witness ==
    /\ rpc = "done"
    /\ ragas_runs = 1
    /\ Len(judge_calls) = 5
    /\ Len(final_report) = 6
    /\ final_report[6][1] = "overall_system_evaluation"
    /\ Len(written) = 2

\* C21: in the second invocation of the two-invocation flow, the question set
\* the evaluation stage reads is the one the answers were collected against,
\* and every collected non-empty answer is in the evaluation bundle, paired with
\* the question text it was given for.
C21_CollectedAnswersReachBundle ==
    site = "resume" =>
        \A k \in 1..Len(GenerateCallsOf("evaluate_answers")) :
            LET bundle == GenerateCallsOf("evaluate_answers")[k].arg IN
            /\ state.questions = input.questions
            /\ \A q \in DOMAIN input.answers :
                input.answers[q] # "" =>
                    \E i \in 1..Len(bundle) :
                        /\ bundle[i].question = q
                        /\ bundle[i].answer = input.answers[q]

\* the judge calls whose response content was not the text of a JSON value
NotJsonReplies ==
    {k \in 1..Len(judge_calls) :
        judge_calls[k].reply # None /\ ~judge_calls[k].reply[1].json}

\* C22: a report file exists only once all five judge responses have been
\* parsed: every file written holds all six sections, with each critique the
\* parsed content of its judge's response.  A judge response that is not valid
\* JSON ends the run in failure at that call, and then, as after any failure,
\* neither file is written.
C22_NoPartialReport ==
    /\ written # <<>> =>
        /\ Len(judge_calls) = 5
        /\ \A k \in 1..5 :
            /\ judge_calls[k].reply # None
            /\ judge_calls[k].reply[1].json
        /\ \A i \in 1..Len(written) :
            /\ Len(written[i].content) = 6
            /\ \A k \in 1..5 :
                written[i].content[k + 1] =
                    <<ExpectedJudges[k], Critique(judge_calls[k].reply[1].body)>>
    /\ NotJsonReplies # {} =>
        /\ rpc = "raised"
        /\ NotJsonReplies = {Len(judge_calls)}
    /\ rpc = "raised" => written = <<>>
    /\ Len(written) <= 2
    /\ \A i \in 1..Len(written) :
        written[i].name = (IF i = 1 THEN "recuruitment_system_evaluation.json"
                                    ELSE "recuruitment_system_evaluation.csv")

\* the third judge answered with text that is not JSON after two critiques
\* were stored: the run has failed and nothing is written
C22_Witness ==
    /\ rpc = "raised"
    /\ Len(judge_calls) = 3
    /\ NotJsonReplies = {3}
    /\ Len(final_report) = 3
    /\ written = <<>>

====
